---- MODULE Spec2Model ----
(***************************************************************************)
(* Model of xknob.js: the <x-knob> rotary control.                         *)
(*                                                                         *)
(* Numbers.  A JavaScript number is modelled in fixed point: the integer n *)
(* stands for the value n / Turn turns, so Turn stands for 1.0.  The three *)
(* non-finite doubles and the JavaScript null are separate symbols.        *)
(* Arithmetic on finite numbers is exact (no floating-point rounding).     *)
(* An angle is an integer count of PI/4 radians, so PI stands for Math.PI. *)
(***************************************************************************)
EXTENDS Integers, Sequences, FiniteSets, TLC

Turn == 40
PI == 4

Infinity == 1000000
NaN == 1000001
null == 1000002

\* Number.isFinite(x): false for NaN, +Infinity, -Infinity and non-numbers.
isFinite(x) == x > 0 - Infinity /\ x < Infinity

isNaN(x) == x = NaN

\* parseFloat(x): a number parses to itself; anything else (null, a
\* non-numeric string) to NaN.
parseFloat(x) == IF x = null THEN NaN ELSE x

\* parseInt(x, 10): the integer part, towards zero, of a finite number;
\* NaN for everything else (Infinity prints as "Infinity", which has no
\* leading digits).  The result is a plain integer, not a fixed-point one.
parseInt(x) ==
    IF ~isFinite(x) THEN NaN
    ELSE IF x >= 0 THEN x \div Turn ELSE 0 - ((0 - x) \div Turn)

float_or_default(x, def) ==
    LET p == parseFloat(x) IN IF isNaN(p) THEN def ELSE p

int_or_default(x, def) ==
    LET p == parseInt(x) IN IF isNaN(p) THEN def ELSE p

\* Math.round of the rational n / den (den > 0): the nearest integer, a tie
\* going up (towards +Infinity).
MathRound(n, den) == (2 * n + den) \div (2 * den)

\* A Snap that does not divide by the divisions.
Snap_no_division(v, d) == MathRound(v * d, Turn) * Turn

\* Math.round(v * d) / d for the fixed-point v and the plain integer d >= 2.
\* Exact whenever d divides Turn.
Snap(v, d) == (MathRound(v * d, Turn) * Turn) \div d

\* An _update_value that clamps before it snaps to a division.
_update_value_clamp_first(value, divisions, min, max) ==
    LET v1 == IF ~isFinite(value) THEN 0 ELSE value
        v2 == IF isFinite(max) /\ v1 > max THEN max ELSE v1
        v3 == IF isFinite(min) /\ v2 < min THEN min ELSE v2
        v4 == IF isFinite(divisions) /\ divisions >= 2
              THEN Snap(v3, divisions) ELSE v3
    IN v4

\* An _update_value without the clamp to max.
_update_value_no_max(value, divisions, min, max) ==
    LET v1 == IF ~isFinite(value) THEN 0 ELSE value
        v2 == IF isFinite(divisions) /\ divisions >= 2
              THEN Snap(v1, divisions) ELSE v1
        v3 == IF isFinite(min) /\ v2 < min THEN min ELSE v2
    IN v3

\* An _update_value without the clamp to min.
_update_value_no_min(value, divisions, min, max) ==
    LET v1 == IF ~isFinite(value) THEN 0 ELSE value
        v2 == IF isFinite(divisions) /\ divisions >= 2
              THEN Snap(v1, divisions) ELSE v1
        v3 == IF isFinite(max) /\ v2 > max THEN max ELSE v2
    IN v3

\* An _update_value that clamps to min before it clamps to max.
_update_value_min_first(value, divisions, min, max) ==
    LET v1 == IF ~isFinite(value) THEN 0 ELSE value
        v2 == IF isFinite(divisions) /\ divisions >= 2
              THEN Snap(v1, divisions) ELSE v1
        v3 == IF isFinite(min) /\ v2 < min THEN min ELSE v2
        v4 == IF isFinite(max) /\ v3 > max THEN max ELSE v3
    IN v4

\* The body of _update_value on the fields of one knob: the new _value.
_update_value(value, divisions, min, max) ==
    LET v1 == IF ~isFinite(value) THEN 0 ELSE value
        v2 == IF isFinite(divisions) /\ divisions >= 2
              THEN Snap(v1, divisions) ELSE v1
        v3 == IF isFinite(max) /\ v2 > max THEN max ELSE v2
        v4 == IF isFinite(min) /\ v3 < min THEN min ELSE v3
    IN v4

\* Math.atan2(y, x) on the eight compass points and the origin.
atan2(y, x) ==
    CASE y = 0 /\ x = 0 -> 0
      [] y = 0 /\ x > 0 -> 0
      [] y > 0 /\ x > 0 -> 1
      [] y > 0 /\ x = 0 -> 2
      [] y > 0 /\ x < 0 -> 3
      [] y = 0 /\ x < 0 -> 4
      [] y < 0 /\ x < 0 -> 0 - 3
      [] y < 0 /\ x = 0 -> 0 - 2
      [] y < 0 /\ x > 0 -> 0 - 1

\* The rotation centre of every knob, in the knob's own frame.
_get_center_position == <<0, 0>>

\* A _get_mouse_angle that reads clientX and clientY of every event.
_get_mouse_angle_client_only(ev) ==
    LET center == _get_center_position
        cursor == ev.client
        rad == atan2(cursor[2] - center[2], cursor[1] - center[1])
    IN rad + PI \div 2

\* ev.targetTouches[0] if there is one, else the mouse position.
_get_mouse_angle(ev) ==
    LET center == _get_center_position
        cursor == IF Len(ev.targetTouches) > 0
                  THEN ev.targetTouches[1] ELSE ev.client
        rad == atan2(cursor[2] - center[2], cursor[1] - center[1])
    IN rad + PI \div 2

\* A delta_angle without the correction of a negative difference.
delta_angle_no_wrap(new_angle, old_angle) ==
    LET d0 == new_angle - old_angle
        d2 == IF d0 > PI THEN d0 - PI * 2 ELSE d0
    IN d2

\* delta_angle of drag_rotate after the two wraparound corrections.
delta_angle(new_angle, old_angle) ==
    LET d0 == new_angle - old_angle
        d1 == IF d0 < 0 THEN d0 + PI * 2 ELSE d0
        d2 == IF d1 > PI THEN d1 - PI * 2 ELSE d1
    IN d2

\* A delta_value that divides by Math.PI only.
delta_value_half_turn(d) == (d * Turn) \div PI

\* delta_angle / Math.PI / 2, in fixed point.
delta_value(d) == (d * Turn) \div (PI * 2)

(***************************************************************************)
(* The bounds of the model.                                                *)
(***************************************************************************)
\* Drag steps explored in one session.
MaxSteps == 3
\* Pointer-down events (accepted or rejected) explored in one behaviour.
MaxDowns == 2
\* Accessor calls explored in one behaviour.
MaxCalls == 2

Knobs == {1, 2}
Documents == {1, 2}

(***************************************************************************)
(* The state.  _value, _min, _max and _divisions are the private fields of *)
(* each knob; the four xknob_ variables are the globals of the script;     *)
(* listeners is the set of documents on which the four document listeners  *)
(* are registered.  emitted and op observe the last step: the events it    *)
(* dispatched, in order, and the handler that ran.  The remaining          *)
(* variables record the history of the session in progress: the value of   *)
(* the knob at the accepted pointer-down, the drag steps taken, the        *)
(* 'input' events fired, the sum of the shortest angular paths of its      *)
(* steps, whether an accessor was called; changes_fired counts the         *)
(* 'change' events since the last accepted pointer-down, and pending is    *)
(* the first accepted pointer-down (knob, value) since the last pointer-up.*)
(* downs and calls count the pointer-down events and the accessor calls of *)
(* the behaviour, which the bounds limit.                                  *)
(***************************************************************************)
VARIABLES _value, _min, _max, _divisions, ownerDocument,
          xknob_being_dragged, xknob_drag_previous_angle,
          xknob_drag_previous_value, xknob_drag_initial_value,
          listeners, emitted, op,
          down_value, drag_steps, inputs_fired, motion, touched,
          changes_fired, pending, downs, calls

knob == <<_value, _min, _max, _divisions, ownerDocument>>
session == <<xknob_being_dragged, xknob_drag_previous_angle,
             xknob_drag_previous_value, xknob_drag_initial_value>>
progress == <<down_value, drag_steps, inputs_fired, motion, touched>>
budget == <<downs, calls>>
vars == <<knob, session, listeners, emitted, op, progress, changes_fired,
          pending, budget>>

\* new Event(type) dispatched on knob w.
Event(type, w) == [type |-> type, target |-> w]

\* The handler or setter that ran in the last step, the knob it acted on
\* (null if none), the document the event was delivered in, and its
\* argument: the pointer position of the event, or the value assigned.
Op(name, w, doc, arg) == [name |-> name, knob |-> w, doc |-> doc, arg |-> arg]

\* The pointer position of an event, as _get_mouse_angle reads it.
PositionOf(ev) ==
    IF Len(ev.targetTouches) > 0 THEN ev.targetTouches[1] ELSE ev.client

\* The fields of a knob after createdCallback, given its attributes (null:
\* the attribute is absent): the defaults, then the setters of divisions,
\* min, max and value in this order.
createdCallback(attrs) ==
    LET d == IF attrs.divisions = null THEN 0
             ELSE int_or_default(attrs.divisions, 0)
        v0 == _update_value(0, d, null, null)
        mn == IF attrs.min = null THEN null
              ELSE float_or_default(attrs.min, null)
        v1 == _update_value(v0, d, mn, null)
        mx == IF attrs.max = null THEN null
              ELSE float_or_default(attrs.max, null)
        v2 == _update_value(v1, d, mn, mx)
        v3 == IF attrs.value = null THEN v2
              ELSE _update_value(float_or_default(attrs.value, 0), d, mn, mx)
    IN [_divisions |-> d, _min |-> mn, _max |-> mx, _value |-> v3]

NoAttributes == [divisions |-> null, min |-> null, max |-> null, value |-> null]

\* The knobs as constructed from markup: made[w] are the fields of knob w.
InitKnobs(made, docs) ==
    /\ _value = [w \in Knobs |-> made[w]._value]
    /\ _min = [w \in Knobs |-> made[w]._min]
    /\ _max = [w \in Knobs |-> made[w]._max]
    /\ _divisions = [w \in Knobs |-> made[w]._divisions]
    /\ ownerDocument = docs

InitGlobals ==
    /\ xknob_being_dragged = null
    /\ xknob_drag_previous_angle = null
    /\ xknob_drag_previous_value = null
    /\ xknob_drag_initial_value = null
    /\ listeners = {}

NoProgress ==
    /\ down_value' = null
    /\ drag_steps' = 0
    /\ inputs_fired' = 0
    /\ motion' = 0
    /\ touched' = FALSE

\* The history of a session is kept while it is in progress and in the state
\* its pointer-up leaves; any later step without a session clears it.
SameProgress ==
    IF xknob_being_dragged = null THEN NoProgress ELSE UNCHANGED progress

InitHistory ==
    /\ emitted = <<>>
    /\ op = Op("load", null, null, null)
    /\ down_value = null
    /\ drag_steps = 0
    /\ inputs_fired = 0
    /\ motion = 0
    /\ touched = FALSE
    /\ changes_fired = 0
    /\ pending = <<null, null>>
    /\ downs = 0
    /\ calls = 0

(***************************************************************************)
(* The accessors.                                                          *)
(***************************************************************************)
Accessor(name, w, x) ==
    /\ calls < MaxCalls
    /\ calls' = calls + 1
    /\ emitted' = <<>>
    /\ op' = Op(name, w, null, x)
    /\ IF xknob_being_dragged = null
          THEN NoProgress
          ELSE /\ touched' = TRUE
               /\ UNCHANGED <<down_value, drag_steps, inputs_fired, motion>>
    /\ UNCHANGED <<ownerDocument, session, listeners, changes_fired, pending,
                   downs>>

set_value(w, x) ==
    /\ _value' = [_value EXCEPT ![w] =
          _update_value(float_or_default(x, 0), _divisions[w], _min[w], _max[w])]
    /\ UNCHANGED <<_min, _max, _divisions>>
    /\ Accessor("set_value", w, x)

set_min(w, x) ==
    /\ _min' = [_min EXCEPT ![w] = float_or_default(x, null)]
    /\ _value' = [_value EXCEPT ![w] =
          _update_value(_value[w], _divisions[w], _min'[w], _max[w])]
    /\ UNCHANGED <<_max, _divisions>>
    /\ Accessor("set_min", w, x)

\* A max setter that does not call _update_value.
set_max_only(w, x) ==
    /\ _max' = [_max EXCEPT ![w] = float_or_default(x, null)]
    /\ UNCHANGED <<_value, _min, _divisions>>
    /\ Accessor("set_max", w, x)

set_max(w, x) ==
    /\ _max' = [_max EXCEPT ![w] = float_or_default(x, null)]
    /\ _value' = [_value EXCEPT ![w] =
          _update_value(_value[w], _divisions[w], _min[w], _max'[w])]
    /\ UNCHANGED <<_min, _divisions>>
    /\ Accessor("set_max", w, x)

set_divisions(w, x) ==
    /\ _divisions' = [_divisions EXCEPT ![w] = int_or_default(x, 0)]
    /\ _value' = [_value EXCEPT ![w] =
          _update_value(_value[w], _divisions'[w], _min[w], _max[w])]
    /\ UNCHANGED <<_min, _max>>
    /\ Accessor("set_divisions", w, x)

(***************************************************************************)
(* The events.  A mouse event carries its position in client and no        *)
(* targetTouches; a touch event carries it in targetTouches[0].  Positions *)
(* are relative to the centre of the knob the event is measured against.   *)
(***************************************************************************)
MouseEvent(type, button, pos) ==
    [type |-> type, button |-> button, client |-> pos, targetTouches |-> <<>>]

TouchEvent(type, pos) ==
    [type |-> type, button |-> 0, client |-> <<0, 0>>, targetTouches |-> <<pos>>]

\* The shortest signed angular path from angle a to angle b, by definition:
\* the one angle in (-PI, PI] congruent to b - a modulo 2 PI.
ShortestPath(a, b) ==
    CHOOSE d \in (1 - PI)..PI : (d - (b - a)) % (2 * PI) = 0

\* A remove_listeners_from_document that removes nothing.
remove_listeners_from_no_document(doc) == listeners

\* The documents that hold the four listeners after
\* remove_listeners_from_document(elem), elem being in document doc.
remove_listeners_from_document(doc) == listeners \ {doc}

\* The documents that hold the four listeners after
\* add_listeners_to_document(elem), elem being in document doc and held
\* being the documents that hold them before.
add_listeners_to_document(held, doc) == held \cup {doc}

\* start_dragging(ev) for a mousedown or touchstart on the .knob_gfx of w.
start_dragging(ev, w) ==
    LET doc == ownerDocument[w]
        removed == remove_listeners_from_document(doc)
    IN /\ downs < MaxDowns
       /\ downs' = downs + 1
       /\ UNCHANGED calls
       /\ IF ev.type = "mousedown" /\ ev.button # 0
          THEN
            /\ listeners' = removed
            /\ xknob_being_dragged' = null
            /\ emitted' = <<>>
            /\ op' = Op("rejected", w, doc, PositionOf(ev))
            /\ NoProgress
            /\ UNCHANGED <<knob, xknob_drag_previous_angle,
                           xknob_drag_previous_value,
                           xknob_drag_initial_value, changes_fired, pending>>
          ELSE
            /\ xknob_being_dragged' = w
            /\ xknob_drag_previous_angle' = _get_mouse_angle(ev)
            /\ xknob_drag_previous_value' = _value[w]
            /\ xknob_drag_initial_value' = _value[w]
            /\ listeners' = add_listeners_to_document(removed, ownerDocument[w])
            /\ emitted' = <<>>
            /\ op' = Op("start_dragging", w, doc, PositionOf(ev))
            /\ down_value' = _value[w]
            /\ drag_steps' = 0
            /\ inputs_fired' = 0
            /\ motion' = 0
            /\ touched' = FALSE
            /\ changes_fired' = 0
            /\ pending' = IF pending[1] = null THEN <<w, _value[w]>> ELSE pending
            /\ UNCHANGED knob

\* A stop_dragging that dispatches 'change' at the end of every session.
value_differs_always == TRUE

\* The test of stop_dragging that decides whether 'change' is dispatched.
value_differs_from_initial ==
    xknob_drag_initial_value # _value[xknob_being_dragged]

\* A drag_rotate that dispatches 'input' on every step.
actual_value_changed_always(old_actual_value, new_actual_value) == TRUE

\* The test of drag_rotate that decides whether 'input' is dispatched.
actual_value_changed(old_actual_value, new_actual_value) ==
    old_actual_value # new_actual_value

\* stop_dragging(ev) for a mouseup or touchend delivered in document doc.
stop_dragging(doc) ==
    IF xknob_being_dragged = null
    THEN /\ listeners' = remove_listeners_from_document(doc)
         /\ emitted' = <<>>
         /\ op' = Op("stop_dragging", null, doc, null)
         /\ NoProgress
         /\ pending' = <<null, null>>
         /\ UNCHANGED <<knob, session, changes_fired, budget>>
    ELSE /\ emitted' =
               IF value_differs_from_initial
               THEN <<Event("change", xknob_being_dragged)>> ELSE <<>>
         /\ listeners' = remove_listeners_from_document(doc)
         /\ xknob_being_dragged' = null
         /\ op' = Op("stop_dragging", xknob_being_dragged, doc, null)
         /\ UNCHANGED progress
         /\ changes_fired' = changes_fired + Len(emitted')
         /\ pending' = <<null, null>>
         /\ UNCHANGED <<knob, xknob_drag_previous_angle,
                        xknob_drag_previous_value, xknob_drag_initial_value,
                        budget>>

\* drag_rotate(ev) for a mousemove or touchmove delivered in document doc.
drag_rotate(ev, doc) ==
    IF xknob_being_dragged = null
    THEN /\ listeners' = remove_listeners_from_document(doc)
         /\ emitted' = <<>>
         /\ op' = Op("drag_rotate", null, doc, PositionOf(ev))
         /\ NoProgress
         /\ UNCHANGED <<knob, session, changes_fired, pending, budget>>
    ELSE LET w == xknob_being_dragged
             new_angle == _get_mouse_angle(ev)
             old_angle == xknob_drag_previous_angle
             new_proposed_value ==
                 xknob_drag_previous_value
                     + delta_value(delta_angle(new_angle, old_angle))
             old_actual_value == _value[w]
             new_actual_value ==
                 _update_value(float_or_default(new_proposed_value, 0),
                               _divisions[w], _min[w], _max[w])
         IN /\ drag_steps < MaxSteps
            /\ xknob_drag_previous_angle' = new_angle
            /\ xknob_drag_previous_value' = new_proposed_value
            /\ _value' = [_value EXCEPT ![w] = new_actual_value]
            /\ emitted' = IF actual_value_changed(old_actual_value,
                                                  new_actual_value)
                          THEN <<Event("input", w)>> ELSE <<>>
            /\ op' = Op("drag_rotate", w, doc, PositionOf(ev))
            /\ drag_steps' = drag_steps + 1
            /\ inputs_fired' = inputs_fired + Len(emitted')
            /\ motion' = motion + ShortestPath(old_angle, new_angle)
            /\ UNCHANGED <<_min, _max, _divisions, ownerDocument,
                           xknob_being_dragged, xknob_drag_initial_value,
                           listeners, down_value, touched, changes_fired,
                           pending, budget>>

\* A mouseup or touchend in document doc: stop_dragging runs if it is
\* registered there, and nothing runs otherwise.
PointerUp(doc) ==
    IF doc \in listeners THEN stop_dragging(doc)
    ELSE /\ emitted' = <<>>
         /\ op' = Op("unobserved", null, doc, null)
         /\ pending' = <<null, null>>
         /\ SameProgress
         /\ UNCHANGED <<knob, session, listeners, changes_fired, budget>>

\* A mousemove or touchmove in a document where drag_rotate is registered.
PointerMove(ev, doc) == doc \in listeners /\ drag_rotate(ev, doc)

(***************************************************************************)
(* The inputs explored.                                                    *)
(***************************************************************************)
\* Straight up, right and straight down: the angles 0, PI/2 and PI.
Positions == {<<0, 0 - 1>>, <<1, 0>>, <<0, 1>>}

DownEvents ==
    {MouseEvent("mousedown", b, p) : b \in {0, 2}, p \in Positions}
        \cup {TouchEvent("touchstart", p) : p \in Positions}

MoveEvents ==
    {MouseEvent("mousemove", 0, p) : p \in Positions}
        \cup {TouchEvent("touchmove", p) : p \in Positions}

\* Markup of the first knob under Spec: min="-1" max="1"; divisions="4"
\* max="0.3".
Markups ==
    {[divisions |-> null, min |-> 0 - 40, max |-> 40, value |-> null],
     [divisions |-> 160, min |-> null, max |-> 12, value |-> null]}

(***************************************************************************)
(* Spec: two knobs, the first built from one of Markups in document 1 and   *)
(* the second with no attribute in either document, driven by pointer      *)
(* events.                                                                 *)
(***************************************************************************)
Init ==
    /\ \E m \in Markups, docs \in {f \in [Knobs -> Documents] : f[1] = 1} :
          InitKnobs([w \in Knobs |-> IF w = 1 THEN createdCallback(m)
                                     ELSE createdCallback(NoAttributes)],
                    docs)
    /\ InitGlobals
    /\ InitHistory

Next ==
    \/ \E w \in Knobs, ev \in DownEvents : start_dragging(ev, w)
    \/ \E d \in Documents, ev \in MoveEvents : PointerMove(ev, d)
    \/ \E d \in Documents : PointerUp(d)

Spec == Init /\ [][Next]_vars

(***************************************************************************)
(* SpecAccessors: one knob in one document, built from one of              *)
(* AccessorMarkups and operated through its four setters, with numeric and *)
(* non-numeric arguments, before, during and after one drag.               *)
(***************************************************************************)
\* No attribute; min="0" max="1"; divisions="4" max="0.3".
AccessorMarkups ==
    {NoAttributes,
     [divisions |-> null, min |-> 0, max |-> 40, value |-> null],
     [divisions |-> 160, min |-> null, max |-> 12, value |-> null]}

\* -0.2, 0.1, 0.4, 1.5 and the non-numbers.
ValueInputs == {0 - 8, 4, 16, 60, NaN, Infinity, 0 - Infinity, null}
\* 0, 0.3, 1 and the non-numbers.
BoundInputs == {0, 12, 40, Infinity, null}
\* 1, 2.5, 4 and the non-numbers.
DivisionInputs == {40, 100, 160, Infinity, null}

InitAccessors ==
    /\ \E m \in AccessorMarkups :
          InitKnobs([w \in Knobs |-> IF w = 1 THEN createdCallback(m)
                                     ELSE createdCallback(NoAttributes)],
                    [w \in Knobs |-> 1])
    /\ InitGlobals
    /\ InitHistory

NextAccessors ==
    \/ \E x \in ValueInputs : set_value(1, x)
    \/ \E x \in BoundInputs : set_min(1, x)
    \/ \E x \in BoundInputs : set_max(1, x)
    \/ \E x \in DivisionInputs : set_divisions(1, x)
    \/ downs = 0 /\ start_dragging(MouseEvent("mousedown", 0, <<0, 0 - 1>>), 1)
    \/ \E p \in {<<0, 0 - 1>>, <<1, 0>>} :
          PointerMove(MouseEvent("mousemove", 0, p), 1)
    \/ PointerUp(1)

SpecAccessors == InitAccessors /\ [][NextAccessors]_vars

(***************************************************************************)
(* SpecAngles: one knob with no attribute, dragged once through the eight  *)
(* compass points around its centre and the centre itself.                 *)
(***************************************************************************)
AllPositions == {<<x, y>> : x \in {0 - 1, 0, 1}, y \in {0 - 1, 0, 1}}

InitAngles ==
    /\ InitKnobs([w \in Knobs |-> createdCallback(NoAttributes)],
                 [w \in Knobs |-> 1])
    /\ InitGlobals
    /\ InitHistory

NextAngles ==
    \/ \E p \in AllPositions :
          downs = 0 /\ start_dragging(TouchEvent("touchstart", p), 1)
    \/ \E p \in AllPositions : PointerMove(MouseEvent("mousemove", 0, p), 1)
    \/ \E p \in AllPositions : PointerMove(TouchEvent("touchmove", p), 1)
    \/ PointerUp(1)

SpecAngles == InitAngles /\ [][NextAngles]_vars

(***************************************************************************)
(* SpecTransform: one knob built from any of TransformMarkups, to whose     *)
(* value a raw number is assigned, or the value it already holds.          *)
(***************************************************************************)
\* divisions absent, "1", "2", "4" or "5"; min absent, "-0.5", "0", "0.3"
\* or "1"; max absent, "0", "0.3", "0.5" or "1".
TransformMarkups ==
    {[divisions |-> d, min |-> mn, max |-> mx, value |-> null] :
        d \in {null, 40, 80, 160, 200},
        mn \in {null, 0 - 20, 0, 12, 40},
        mx \in {null, 0, 12, 20, 40}}

\* -1.5, -0.5, -0.2, 0, 0.1, 0.125, 0.3, 0.325, 0.4, 0.625, 0.75, 1.5 and
\* the non-numbers.
RawInputs ==
    {0 - 60, 0 - 20, 0 - 8, 0, 4, 5, 12, 13, 16, 25, 30, 60,
     NaN, Infinity, 0 - Infinity, null}

InitTransform ==
    /\ \E m \in TransformMarkups :
          InitKnobs([w \in Knobs |-> IF w = 1 THEN createdCallback(m)
                                     ELSE createdCallback(NoAttributes)],
                    [w \in Knobs |-> 1])
    /\ InitGlobals
    /\ InitHistory

NextTransform ==
    \/ \E x \in RawInputs : set_value(1, x)
    \/ set_value(1, _value[1])

SpecTransform == InitTransform /\ [][NextTransform]_vars

(***************************************************************************)
(* The properties.                                                         *)
(***************************************************************************)
Changes(events) == SelectSeq(events, LAMBDA e : e.type = "change")
Inputs(events) == SelectSeq(events, LAMBDA e : e.type = "input")

\* The step is a pointer-up that stop_dragging handles with a session active.
EndsSession == op'.name = "stop_dragging" /\ xknob_being_dragged # null

\* The step is a pointer-move that drag_rotate handles with a session active.
DragStep == op'.name = "drag_rotate" /\ xknob_being_dragged # null

\* C1: a 'change' is dispatched only by a pointer-up that finds a session
\* whose knob's value differs from the session's initial value, and then
\* once, on that knob; at most one 'change' is dispatched between one
\* accepted pointer-down and the next; and a pointer-up that finds the value
\* the knob had at the accepted pointer-down dispatches none.
C1_ChangeOnlyAtPointerUp ==
    [][LET w == xknob_being_dragged
       IN /\ Len(Changes(emitted')) > 0 =>
                /\ EndsSession
                /\ _value[w] # xknob_drag_initial_value
                /\ emitted' = <<Event("change", w)>>
          /\ changes_fired' <= 1
          /\ (EndsSession /\ _value[w] = down_value) => emitted' = <<>>
      ]_vars

\* A session that fired two 'input' events and came back to the value of its
\* pointer-down has just ended without a 'change'.
C1_Witness ==
    /\ op.name = "stop_dragging"
    /\ op.knob # null
    /\ inputs_fired >= 2
    /\ _value[op.knob] = down_value
    /\ emitted = <<>>

\* C2: the instance of the claim in which no other accepted pointer-down
\* replaced the drag: at a pointer-up in the document of knob W, following
\* an accepted pointer-down on W, exactly one 'change' is dispatched on W if
\* the value of W differs from its value at that pointer-down, and none
\* otherwise.
C2_ChangeIffValueDiffers ==
    [][LET w == pending[1]
       IN (/\ op'.name \in {"stop_dragging", "unobserved"}
           /\ w # null
           /\ op'.doc = ownerDocument[w]
           /\ xknob_being_dragged \in {w, null}
           /\ xknob_drag_initial_value = pending[2])
          => emitted' = IF _value[w] # pending[2]
                        THEN <<Event("change", w)>> ELSE <<>>
      ]_vars

\* C3: a drag step dispatches exactly one 'input', on the dragged knob, if
\* the step changed the knob's value, and nothing otherwise; no other step
\* dispatches an 'input'.
C3_InputIffValueChanged ==
    [][LET w == xknob_being_dragged
       IN IF DragStep
          THEN emitted' = IF _value'[w] # _value[w]
                          THEN <<Event("input", w)>> ELSE <<>>
          ELSE Len(Inputs(emitted')) = 0
      ]_vars

\* A drag step has moved the accumulator of a clamped knob and left the
\* knob's value where it was: no 'input'.
C3_Witness ==
    /\ op.name = "drag_rotate"
    /\ op.knob # null
    /\ drag_steps >= 2
    /\ xknob_drag_previous_value # _value[op.knob]
    /\ emitted = <<>>

(***************************************************************************)
(* The transform as the specification states it, step by step, on the      *)
(* fixed-point numbers.                                                    *)
(***************************************************************************)
Abs(n) == IF n < 0 THEN 0 - n ELSE n

\* A real number: neither NaN, nor an infinity, nor a non-number.
Finite(x) == x \notin {NaN, Infinity, 0 - Infinity, null}

\* round(n / den) for den > 0: the integer k with k - 1/2 <= n / den and
\* n / den < k + 1/2.
Round(n, den) ==
    CHOOSE k \in (0 - (Abs(n) + 1))..(Abs(n) + 1) :
        2 * den * k - den <= 2 * n /\ 2 * n < 2 * den * k + den

\* apply(raw, min, max, divisions): sanitize, quantize, clamp high, clamp low.
ValueTransform(raw, min, max, divisions) ==
    LET s1 == IF Finite(raw) THEN raw ELSE 0
        s2 == IF divisions >= 2
              THEN (Round(s1 * divisions, Turn) * Turn) \div divisions ELSE s1
        s3 == IF Finite(max) /\ s2 > max THEN max ELSE s2
        s4 == IF Finite(min) /\ s3 < min THEN min ELSE s3
    IN s4

Apply(x, w) == ValueTransform(x, _min[w], _max[w], _divisions[w])

\* The last step assigned the number x to the value of a knob configured
\* with divisions d, min mn and max mx.
Assigned(x, d, mn, mx) ==
    /\ op.name = "set_value"
    /\ op.arg = x
    /\ _divisions[op.knob] = d
    /\ _min[op.knob] = mn
    /\ _max[op.knob] = mx

\* C4: assigning a number x (NaN and the infinities included) to value
\* stores the result of sanitize, quantize, clamp high, clamp low, in this
\* order, on x.  With nothing configured NaN gives 0; with divisions = 4,
\* 0.1 gives 0 and 0.4 gives 0.5.
C4_SetValueIsTransform ==
    /\ (op.name = "set_value" /\ op.arg # null)
           => _value[op.knob] = Apply(op.arg, op.knob)
    /\ Assigned(NaN, 0, null, null) => _value[op.knob] = 0
    /\ Assigned(4, 4, null, null) => _value[op.knob] = 0
    /\ Assigned(16, 4, null, null) => _value[op.knob] = 20

\* 0.4 was assigned to a knob with divisions = 4 and max = 0.3: the value
\* snapped to 0.5 and was then clamped to 0.3.
C4_Witness == Assigned(16, 4, null, 12) /\ _value[op.knob] = 12

\* C5: whenever min <= max or one of them is not finite, the value is not
\* below a finite min and not above a finite max.  With min = 0 and max = 1,
\* assigning -0.2 gives 0 and assigning 1.5 gives 1.
C5_ValueWithinBounds ==
    /\ \A w \in Knobs :
          (Finite(_min[w]) /\ Finite(_max[w]) => _min[w] <= _max[w])
              => /\ Finite(_min[w]) => _value[w] >= _min[w]
                 /\ Finite(_max[w]) => _value[w] <= _max[w]
    /\ Assigned(0 - 8, 0, 0, 40) => _value[op.knob] = 0
    /\ Assigned(60, 0, 0, 40) => _value[op.knob] = 40

\* -0.2 was assigned to a knob with min = 0 and max = 1, and 0 was stored.
C5_Witness == Assigned(0 - 8, 0, 0, 40) /\ _value[op.knob] = 0

\* The step is a call of the setter of min, max or divisions.
Configures == op'.name \in {"set_min", "set_max", "set_divisions"}

\* C6: a call of the setter of min, max or divisions, idle or dragging,
\* stores its (numeric) argument in its own field, leaves the other two
\* fields as they were, replaces the value by the transform of the value
\* before the call under the new configuration, and dispatches nothing.
C6_SettersResanitize ==
    [][Configures =>
          LET w == op'.knob
              x == op'.arg
          IN /\ _value'[w] =
                   ValueTransform(_value[w], _min'[w], _max'[w], _divisions'[w])
             /\ op'.name = "set_min" =>
                   /\ Finite(x) => _min'[w] = x
                   /\ _max'[w] = _max[w] /\ _divisions'[w] = _divisions[w]
             /\ op'.name = "set_max" =>
                   /\ Finite(x) => _max'[w] = x
                   /\ _min'[w] = _min[w] /\ _divisions'[w] = _divisions[w]
             /\ op'.name = "set_divisions" =>
                   /\ (Finite(x) /\ x % Turn = 0) => _divisions'[w] * Turn = x
                   /\ _min'[w] = _min[w] /\ _max'[w] = _max[w]
             /\ emitted' = <<>>
             /\ \A u \in Knobs \ {w} : _value'[u] = _value[u]
      ]_vars

\* During a drag that took the value to 0.25, max was set to 0 and the
\* value followed, the accumulator staying where it was.
C6_Witness ==
    /\ op.name = "set_max"
    /\ op.arg = 0
    /\ xknob_being_dragged = op.knob
    /\ xknob_drag_previous_value = 10
    /\ _value[op.knob] = 0

\* The configuration of knob w is aligned: it has no divisions, or each of
\* its finite bounds is a multiple of 1 / divisions.
Aligned(w) ==
    \/ _divisions[w] < 2
    \/ /\ Finite(_min[w]) => (_min[w] * _divisions[w]) % Turn = 0
       /\ Finite(_max[w]) => (_max[w] * _divisions[w]) % Turn = 0

\* C10 as stated: in every reachable state the value of every knob is a
\* fixed point of the transform.
C10_FixedPoint == \A w \in Knobs : _value[w] = Apply(_value[w], w)

\* C10: in every reachable state the value of every knob whose
\* configuration is aligned is a fixed point of the transform.
C10_FixedPointWhenAligned ==
    \A w \in Knobs : Aligned(w) => _value[w] = Apply(_value[w], w)

\* A knob with divisions = 4 and max = 1 holds the value 1 after 1.5 was
\* assigned to it.
C10_Witness == \E mn \in {null, 0} : Assigned(60, 4, mn, 40) /\ _value[op.knob] = 40

\* The session of knob 1, built with divisions = 0, min = -1 and max = 1 and
\* holding 0 at its pointer-down, has just ended at a pointer-up; its drag
\* steps turned the pointer by 5 PI / 2 in all, and no setter was called.
EndToEnd ==
    /\ op.name = "stop_dragging"
    /\ op.knob = 1
    /\ _divisions[1] = 0 /\ _min[1] = 0 - Turn /\ _max[1] = Turn
    /\ down_value = 0
    /\ 2 * motion = 5 * PI
    /\ ~touched

\* C7 as stated: the motion of 5 PI / 2 is made in a single drag step; the
\* accumulator is 1.25 and the value 1; exactly one 'input' fired during the
\* drag and exactly one 'change' at the pointer-up.
C7_SingleStep ==
    EndToEnd =>
        /\ drag_steps = 1
        /\ xknob_drag_previous_value = (5 * Turn) \div 4
        /\ _value[1] = Turn
        /\ inputs_fired = 1
        /\ emitted = <<Event("change", 1)>>
        /\ changes_fired = 1

\* C7: the motion of 5 PI / 2 takes at least three drag steps; the
\* accumulator is 1.25 and the value 1; an 'input' fired in at least two of
\* the steps, and exactly one 'change' at the pointer-up.
C7_SeveralSteps ==
    EndToEnd =>
        /\ drag_steps >= 3
        /\ xknob_drag_previous_value = (5 * Turn) \div 4
        /\ _value[1] = Turn
        /\ inputs_fired >= 2
        /\ inputs_fired <= drag_steps
        /\ emitted = <<Event("change", 1)>>
        /\ changes_fired = 1

\* The end-to-end drag has ended after three steps, the last of which left
\* the value at 1.
C7_Witness == EndToEnd /\ drag_steps = 3 /\ inputs_fired = 2

\* C8: in every drag step the angles before and after the step lie in
\* (-PI/2, 3 PI/2], and the angular delta the step added to the accumulator
\* lies in [-PI, PI] and is congruent modulo 2 PI to the difference of the
\* two angles.
C8_ShortestSignedDelta ==
    [][DragStep =>
          LET old == xknob_drag_previous_angle
              new == xknob_drag_previous_angle'
              added == xknob_drag_previous_value' - xknob_drag_previous_value
              delta == (added * 2 * PI) \div Turn
          IN /\ 2 * old > 0 - PI /\ 2 * old <= 3 * PI
             /\ 2 * new > 0 - PI /\ 2 * new <= 3 * PI
             /\ delta * Turn = added * 2 * PI
             /\ delta >= 0 - PI /\ delta <= PI
             /\ (delta - (new - old)) % (2 * PI) = 0
      ]_vars

\* The first drag step went from the angle 3 PI / 2 to the angle -PI / 4,
\* across the discontinuity of the range: a difference of -7 PI / 4, taken
\* as +PI / 4.
C8_Witness ==
    /\ op.name = "drag_rotate"
    /\ op.knob # null
    /\ drag_steps = 1
    /\ 4 * xknob_drag_previous_angle = 0 - PI
    /\ 4 * motion = PI
    /\ 8 * (xknob_drag_previous_value - down_value) = Turn

\* The turns that an angular motion of m stands for.
Turns(m) == (m * Turn) \div (2 * PI)

\* C9: every drag step adds to the accumulator the turns of the shortest
\* signed path between the angle before the step and the angle of the
\* step's event (0.25 for +PI / 2), and makes that angle the previous angle;
\* while a session lasts the accumulator is the value at the pointer-down
\* plus the turns of all its steps, whatever the knob's min, max, divisions
\* and value.
C9_AccumulatorAddsDelta ==
    [][DragStep =>
          LET old == xknob_drag_previous_angle
              new == xknob_drag_previous_angle'
              added == xknob_drag_previous_value' - xknob_drag_previous_value
          IN /\ added = Turns(ShortestPath(old, new))
             /\ 2 * ShortestPath(old, new) = PI => 4 * added = Turn
             /\ new = _get_mouse_angle(MouseEvent("mousemove", 0, op'.arg))
             /\ xknob_drag_previous_value' = down_value' + Turns(motion')
             /\ xknob_drag_initial_value' = down_value'
      ]_vars

\* After three steps the accumulator of a knob with max = 1 stands at 1.25
\* while the value is 1.
C9_Witness ==
    /\ op.name = "drag_rotate"
    /\ op.knob # null
    /\ _max[op.knob] = Turn
    /\ xknob_drag_previous_value = (5 * Turn) \div 4
    /\ _value[op.knob] = Turn

\* C11 as stated: in every reachable state the document listeners are
\* registered, in some document, if and only if a session is active.
C11_ListenersIffSession ==
    (listeners # {}) <=> (xknob_being_dragged # null)

\* The step is a pointer-move or pointer-up that its handler receives while
\* no session is active.
StrayEvent ==
    /\ op'.name \in {"stop_dragging", "drag_rotate"}
    /\ xknob_being_dragged = null

\* C12: a pointer-move or pointer-up handled while no session is active
\* changes the value, min, max and divisions of no knob, dispatches nothing
\* and leaves the session idle, its other three globals as they were; it
\* removes the listeners of the event's document and no other, so that
\* handling the same event again would change nothing.
C12_StrayEventIsNoOp ==
    [][StrayEvent =>
          /\ UNCHANGED <<_value, _min, _max, _divisions>>
          /\ emitted' = <<>>
          /\ xknob_being_dragged' = null
          /\ UNCHANGED <<xknob_drag_previous_angle, xknob_drag_previous_value,
                         xknob_drag_initial_value>>
          /\ listeners' = listeners \ {op'.doc}
          /\ listeners' \ {op'.doc} = listeners'
      ]_vars

\* A pointer-move has reached drag_rotate with no session active, after a
\* drag that left a knob at a value other than 0; no listener remains.
C12_Witness ==
    /\ op.name = "drag_rotate"
    /\ op.knob = null
    /\ xknob_being_dragged = null
    /\ \E w \in Knobs : _value[w] # 0
    /\ emitted = <<>>
    /\ listeners = {}

\* C13 as stated: a mousedown with a button other than the primary one
\* leaves the session as it was: idle if it was idle, and the same knob,
\* previous angle, accumulator and initial value if one was active.
C13_RejectedKeepsSession ==
    [][op'.name = "rejected" =>
          UNCHANGED <<xknob_being_dragged, xknob_drag_previous_angle,
                      xknob_drag_previous_value, xknob_drag_initial_value>>
      ]_vars

\* C14 as stated: every step after which the knob of the active session is
\* no longer the knob being dragged is a pointer-up.
C14_EndsOnlyAtPointerUp ==
    [][(xknob_being_dragged # null
            /\ xknob_being_dragged' # xknob_being_dragged)
          => op'.name = "stop_dragging"
      ]_vars

\* C15: after every drag step the value of the dragged knob is the transform
\* of the updated accumulator under the knob's configuration, whatever the
\* value was before the step; it is therefore the transform of the initial
\* value plus the turns of the session's whole motion, however the motion
\* was split into steps; and on a knob without divisions whose accumulator
\* stands at or above max (min not above max), the value is max.
C15_ValueFollowsAccumulator ==
    [][DragStep =>
          LET w == xknob_being_dragged
              acc == xknob_drag_previous_value'
          IN /\ _value'[w] =
                   ValueTransform(acc, _min'[w], _max'[w], _divisions'[w])
             /\ _value'[w] =
                   ValueTransform(xknob_drag_initial_value' + Turns(motion'),
                                  _min'[w], _max'[w], _divisions'[w])
             /\ (/\ _divisions'[w] < 2
                 /\ Finite(_max'[w])
                 /\ acc >= _max'[w]
                 /\ Finite(_min'[w]) => _min'[w] <= _max'[w])
                => _value'[w] = _max'[w]
      ]_vars

\* A setter was called in the middle of a drag, and the drag step after it
\* has put the value back to the transform of the accumulator: the session
\* made two steps, both changed the value, and the pointer is back at the
\* angle of its pointer-down.
C15_Witness ==
    /\ op.name = "drag_rotate"
    /\ op.knob # null
    /\ touched
    /\ drag_steps = 2
    /\ inputs_fired = 2
    /\ motion = 0
    /\ _value[op.knob] = xknob_drag_previous_value
    /\ _value[op.knob] = down_value

\* The angle of the pointer position p around the centre, clockwise from
\* straight up, in (-PI/2, 3 PI/2]; PI/2 for the centre itself.
Bearing(p) ==
    CASE p = <<0, 0 - 1>> -> 0
      [] p = <<1, 0 - 1>> -> PI \div 4
      [] p = <<1, 0>> -> PI \div 2
      [] p = <<1, 1>> -> (3 * PI) \div 4
      [] p = <<0, 1>> -> PI
      [] p = <<0 - 1, 1>> -> (5 * PI) \div 4
      [] p = <<0 - 1, 0>> -> (3 * PI) \div 2
      [] p = <<0 - 1, 0 - 1>> -> 0 - PI \div 4
      [] p = <<0, 0>> -> PI \div 2

\* C16: an accepted pointer-down on knob W, with or without a session
\* active, makes W the knob being dragged, sets the accumulator and the
\* initial value to the value of W and the previous angle to the angle of
\* the event, registers the listeners in the document of W, changes no field
\* of any knob and dispatches nothing; the first drag step after it starts
\* from these, not from what an earlier session left; and the knob being
\* dragged is one knob or none.
C16_AcceptedDownStartsFresh ==
    [][/\ op'.name = "start_dragging" =>
             LET w == op'.knob
             IN /\ xknob_being_dragged' = w
                /\ xknob_drag_previous_value' = _value[w]
                /\ xknob_drag_initial_value' = _value[w]
                /\ xknob_drag_previous_angle' = Bearing(op'.arg)
                /\ ownerDocument[w] \in listeners'
                /\ UNCHANGED <<_value, _min, _max, _divisions>>
                /\ emitted' = <<>>
       /\ (DragStep /\ drag_steps = 0) =>
             LET w == xknob_being_dragged
             IN /\ xknob_drag_previous_value = down_value
                /\ xknob_drag_initial_value = down_value
                /\ xknob_drag_previous_value' =
                      down_value + Turns(ShortestPath(xknob_drag_previous_angle,
                                                      Bearing(op'.arg)))
       /\ xknob_being_dragged' \in Knobs \cup {null}
      ]_vars

\* A pointer-down on knob 2 has been accepted while knob 1, turned away from
\* 0 by its own session, was still being dragged: the accumulator and the
\* initial value are the value of knob 2.
C16_Witness ==
    /\ op.name = "start_dragging"
    /\ op.knob = 2
    /\ pending[1] = 1
    /\ _value[1] # pending[2]
    /\ xknob_being_dragged = 2
    /\ xknob_drag_previous_value = _value[2]
    /\ xknob_drag_initial_value = _value[2]
    /\ _value[2] # _value[1]

\* The step assigns to the value of a knob the value it holds.
Reassigns == op'.name = "set_value" /\ op'.arg = _value[op'.knob]

\* C17: on a knob whose configuration is aligned, assigning any raw x stores
\* a value that the transform maps to itself, and assigning to the value the
\* value it holds changes nothing; on a knob with divisions = 4 and
\* max = 0.3, which is not aligned, assigning the value 0.3 that the clamp
\* produced stores 0.25.
C17_IdempotentWhenAligned ==
    [][op'.name = "set_value" =>
          LET w == op'.knob
              once == ValueTransform(op'.arg, _min[w], _max[w], _divisions[w])
          IN /\ Aligned(w) =>
                   /\ _value'[w] = once
                   /\ ValueTransform(once, _min[w], _max[w], _divisions[w])
                         = once
                   /\ Reassigns => _value'[w] = _value[w]
             /\ (/\ Reassigns
                 /\ _divisions[w] = 4 /\ _min[w] = null /\ _max[w] = 12
                 /\ _value[w] = 12)
                => _value'[w] = 10
      ]_vars

\* On a knob with divisions = 4 and max = 0.3 the value 0.3, clamped to max,
\* has been assigned again and has moved off the bound, to 0.25.
C17_Witness ==
    /\ op.name = "set_value"
    /\ op.arg = 12
    /\ _divisions[op.knob] = 4
    /\ _max[op.knob] = 12
    /\ calls = 2
    /\ _value[op.knob] = 10

\* The session on knob w has not moved the knob: no setter was called, and
\* the accumulator and the initial value are the value of w, as they are
\* after the pointer-down and after every step that changed nothing.
Still(w) ==
    /\ ~touched
    /\ xknob_drag_previous_value = _value[w]
    /\ xknob_drag_initial_value = _value[w]

\* The step is a drag step whose event is at the previous angle.
ZeroStep == DragStep /\ Bearing(op'.arg) = xknob_drag_previous_angle

\* C18 as stated: whatever the configuration, a drag step at the previous
\* angle in a session that has not moved the knob changes neither the value
\* nor the accumulator and dispatches no 'input', and the pointer-up of such
\* a session dispatches no 'change'.
C18_NoMotionInvisible ==
    [][LET w == xknob_being_dragged
       IN /\ (ZeroStep /\ Still(w)) =>
                /\ _value' = _value
                /\ xknob_drag_previous_value' = xknob_drag_previous_value
                /\ emitted' = <<>>
          /\ (EndsSession /\ Still(w)) =>
                /\ _value'[w] = down_value
                /\ emitted' = <<>>
      ]_vars

\* C18: on a knob whose configuration is aligned, a drag step at the
\* previous angle in a session that has not moved the knob changes neither
\* the value nor the accumulator and dispatches no 'input', and the
\* pointer-up of such a session dispatches no 'change'.
C18_NoMotionInvisibleWhenAligned ==
    [][LET w == xknob_being_dragged
       IN /\ (ZeroStep /\ Still(w) /\ Aligned(w)) =>
                /\ _value' = _value
                /\ xknob_drag_previous_value' = xknob_drag_previous_value
                /\ emitted' = <<>>
          /\ (EndsSession /\ Still(w) /\ Aligned(w)) =>
                /\ _value'[w] = down_value
                /\ emitted' = <<>>
      ]_vars

\* A knob without bounds or divisions, set to 0.4 before its pointer-down,
\* has been released after three drag steps none of which dispatched an
\* 'input', hence all at the angle of the pointer-down; no 'change'.
C18_Witness ==
    /\ op.name = "stop_dragging"
    /\ op.knob # null
    /\ ~touched
    /\ _min[op.knob] = null /\ _max[op.knob] = null /\ _divisions[op.knob] = 0
    /\ down_value = 16
    /\ drag_steps = 3
    /\ inputs_fired = 0
    /\ _value[op.knob] = 16
    /\ emitted = <<>>

\* C19: in a session during which no setter was called, a 'change' at the
\* pointer-up follows at least one 'input' of that session, all on the
\* knob of the 'change'; an 'input' is dispatched only while a session is
\* active and before any 'change' since the last accepted pointer-down.
C19_InputBeforeChange ==
    [][/\ (EndsSession /\ ~touched /\ Len(Changes(emitted')) > 0) =>
             /\ inputs_fired >= 1
             /\ emitted' = <<Event("change", xknob_being_dragged)>>
       /\ Len(Inputs(emitted')) > 0 =>
             /\ xknob_being_dragged # null
             /\ emitted' = <<Event("input", xknob_being_dragged)>>
             /\ changes_fired = 0
             /\ changes_fired' = 0
       /\ (Len(Changes(emitted')) > 0) => xknob_being_dragged' = null
      ]_vars

\* A session on knob 2, begun after a session on knob 1 had dispatched its
\* own events, has ended with a 'change' on knob 2 after one 'input'.
C19_Witness ==
    /\ op.name = "stop_dragging"
    /\ op.knob = 2
    /\ emitted = <<Event("change", 2)>>
    /\ inputs_fired = 1
    /\ changes_fired = 1
    /\ _value[1] # 0
    /\ ~touched

\* C20: in every state in which min and max of a knob are finite and min is
\* above max, the value of the knob is min: the setters and the drag steps
\* all end in the same two clamps, the lower one last.
C20_LowClampWins ==
    \A w \in Knobs :
        (Finite(_min[w]) /\ Finite(_max[w]) /\ _min[w] > _max[w])
            => /\ _value[w] = _min[w]
               /\ _value[w] > _max[w]

\* A drag step on a knob with min = 1 and max = 0.3 has moved the
\* accumulator away from the value, which is still min.
C20_Witness ==
    /\ op.name = "drag_rotate"
    /\ op.knob # null
    /\ _min[op.knob] = 40
    /\ _max[op.knob] = 12
    /\ xknob_drag_previous_value # _value[op.knob]
    /\ _value[op.knob] = 40

====
